---- MODULE Spec2Model ----
(***************************************************************************)
(* DDoS-Defense-System: the real-time traffic anomaly detection pipeline.  *)
(*   src/src/monitoring/traffic_monitor.py  TrafficMonitor                 *)
(*   src/src/anomaly_detection/detector.py  AnomalyDetector                *)
(*   src/src/api/server.py                  the control plane              *)
(*                                                                         *)
(* The specifications share the variables below:                           *)
(*   Spec         the monitor with its capture and analysis threads and    *)
(*                the control-plane calls, interleaved statement by        *)
(*                statement (CPython switches threads between bytecodes);  *)
(*   SpecPredict  AnomalyDetector.predict applied to bounded detectors and *)
(*                input vectors;                                           *)
(*   SpecThreat   the verdict history and threat level driven through long *)
(*                verdict sequences (lines 133-136 of traffic_monitor.py,  *)
(*                run by one thread), with the control plane's threshold   *)
(*                updates;                                                 *)
(*   SpecLive     Spec with the scheduling the runtime guarantees;         *)
(*   SpecRoundTrip  save_models followed by load_models;                   *)
(*   SpecWindow   the statistics _analyze_window reduces a batch to;       *)
(*   SpecFair     SpecLive with the started threads and start() running    *)
(*                on;                                                      *)
(*   SpecRestart  start() and stop() on one running instance;              *)
(*   SpecTrain    train, save_models and load_models on one detector;      *)
(*   SpecFrame    Spec continued from an instance with nine verdicts       *)
(*                recorded, with the status query.                         *)
(***************************************************************************)
EXTENDS Integers, Sequences, FiniteSets, TLC

VARIABLES
    now,                \* time.time(), in whole seconds
    monitor,            \* server.py global `monitor`: 0 is None, n the n-th instance
    is_running,         \* TrafficMonitor.is_running
    current_window,     \* TrafficMonitor.current_window
    window_start_time,  \* TrafficMonitor.window_start_time
    recent_predictions, \* TrafficMonitor.recent_predictions, deque(maxlen=100)
    stats,              \* TrafficMonitor.stats
    capture_thread,     \* TrafficMonitor.capture_thread: 0 is None, else a thread id
    analysis_thread,    \* TrafficMonitor.analysis_thread
    threads,            \* the Thread objects started on the instance, by id
    caller,             \* the context calling start()/stop(): where it stands
    response,           \* what the last control-plane call returned
    detector,           \* server.py global `detector` (AnomalyDetector state)
    X,                  \* the argument of predict
    result,             \* what predict returned
    store,              \* the model directory: what save_models wrote there
    loaded,             \* a second detector, filled by load_models from the store
    alert_config,       \* monitor.critical_threshold, .high_threshold, .medium_threshold
    window_stats,       \* the `stats` dict _analyze_window computes from a batch
    detector_config,    \* AnomalyDetector.config: the configuration it was built from
    percentile_log,     \* history: the q of every np.percentile call train made
    delivered,          \* history: packets handed to prn so far
    calls,              \* history: calls of start, stop and the control plane
    predict_log,        \* history: the batches passed to detector.predict
    verdict_log         \* history: every verdict appended to recent_predictions

vars == <<now, monitor, is_running, current_window, window_start_time,
          recent_predictions, stats, capture_thread, analysis_thread, threads,
          caller, response, detector, X, result, store, loaded, alert_config,
          window_stats, detector_config, percentile_log, delivered, calls, predict_log,
          verdict_log>>

monitor_vars == <<is_running, current_window, window_start_time,
                  recent_predictions, stats, capture_thread, analysis_thread>>

(***************************************************************************)
(* Bounds of the model.                                                    *)
(***************************************************************************)
MaxPackets == 2     \* packets the source delivers; feature values are 0..MaxPackets
MaxTime == 2        \* the clock stops here
WindowSize == 1     \* window_size given to TrafficMonitor, in seconds
MaxCalls == 2       \* calls of start, stop and the control plane
MaxWindows == 102   \* verdicts recorded in SpecThreat
MaxFlips == 1       \* changes of verdict in SpecThreat's verdict sequence

(***************************************************************************)
(* Program constants.                                                      *)
(***************************************************************************)
MaxLen == 100       \* deque(maxlen=100)
MinHistory == 10    \* len(self.recent_predictions) < 10

ThreatLevels == {"LOW", "MEDIUM", "HIGH", "CRITICAL"}

Rank(level) ==
    CASE level = "LOW" -> 0
      [] level = "MEDIUM" -> 1
      [] level = "HIGH" -> 2
      [] level = "CRITICAL" -> 3

(***************************************************************************)
(* AnomalyDetector                                                         *)
(***************************************************************************)
\* The columns of the vector _analyze_window hands to predict that the model
\* keeps: the number of records and the number of them with tcp_flags == 2
\* (syn_ratio times packet_count).
FeatureNames == <<"packet_count", "syn_packets">>

Dim == Len(FeatureNames)

Vectors == [1..Dim -> 0..MaxPackets]

\* The keys self.algorithms can hold, in the order __init__ inserts them.
AlgorithmOrder == <<"statistical", "isolation_forest", "autoencoder">>

AlgorithmNames == {AlgorithmOrder[i] : i \in 1..Len(AlgorithmOrder)}

Abs(n) == IF n < 0 THEN -n ELSE n

\* np.sum(np.square(x - y)) over the features of one row
SquaredError(x, y) ==
    LET RECURSIVE Sum(_)
        Sum(i) == IF i = 0 THEN 0 ELSE (x[i] - y[i]) * (x[i] - y[i]) + Sum(i - 1)
    IN Sum(Dim)

\* predictions["statistical"]: np.max(np.abs(scaler.transform(X))) > threshold.
\* transform is (X - mean_) / scale_ with scale_ > 0, so the maximum exceeds
\* the threshold iff some feature's |x - mean| exceeds threshold * scale.
statistical_predict(d, x) ==
    \E i \in 1..Dim :
        Abs(x[i] - d.scaler.mean[i]) > d.z_threshold * d.scaler.scale[i]

\* predictions["isolation_forest"]: forest.predict(X) == -1.  The fitted forest
\* is the set of vectors it classifies as outliers.
isolation_forest_predict(d, x) == x \in d.forest.outliers

\* predictions["autoencoder"]: mean squared reconstruction error > threshold.
\* The fitted network is the vector it reconstructs every input to.
autoencoder_predict(d, x) ==
    SquaredError(x, d.autoencoder.recon) > d.ae_threshold * Dim

algorithm_predict(d, name, x) ==
    CASE name = "statistical" -> statistical_predict(d, x)
      [] name = "isolation_forest" -> isolation_forest_predict(d, x)
      [] name = "autoencoder" -> autoencoder_predict(d, x)

\* What predict cannot run on: an unfitted scaler or forest (sklearn's
\* NotFittedError), an autoencoder still None ('NoneType' has no predict).
predict_raises(d) ==
    \/ "statistical" \in d.algorithms /\ ~d.scaler.fitted
    \/ "isolation_forest" \in d.algorithms /\ ~d.forest.fitted
    \/ "autoencoder" \in d.algorithms /\ ~d.autoencoder.built

\* combined = zeros; for pred in predictions.values(): combined = combined | pred
combine_majority(preds) ==
    LET votes == {i \in 1..Len(preds) : preds[i]}
    IN 2 * Cardinality(votes) > Len(preds)

combine(preds) ==
    LET RECURSIVE Fold(_, _)
        Fold(i, combined) ==
            IF i > Len(preds) THEN combined
            ELSE Fold(i + 1, combined \/ preds[i])
    IN Fold(1, FALSE)

\* predictions.values(), in insertion order
prediction_values(predictions) ==
    LET RECURSIVE Values(_)
        Values(i) ==
            IF i > Len(AlgorithmOrder) THEN <<>>
            ELSE IF AlgorithmOrder[i] \in DOMAIN predictions
                 THEN <<predictions[AlgorithmOrder[i]]>> \o Values(i + 1)
                 ELSE Values(i + 1)
    IN Values(1)

NoPredictions == [a \in {} |-> FALSE]

predict(d, x) ==
    IF predict_raises(d)
    THEN [raised |-> TRUE, combined |-> FALSE, predictions |-> NoPredictions]
    ELSE LET predictions == [a \in d.algorithms |-> algorithm_predict(d, a, x)]
         IN [raised |-> FALSE,
             combined |-> combine(prediction_values(predictions)),
             predictions |-> predictions]

(***************************************************************************)
(* The verdict history and the threat level                                *)
(***************************************************************************)
\* A bounded history that refuses the new verdict when full (contrast).
deque_append_drop_newest(dq, v) ==
    IF Len(dq) >= MaxLen THEN dq ELSE Append(dq, v)

\* deque(maxlen=100).append
deque_append(dq, v) ==
    IF Len(dq) >= MaxLen THEN Append(Tail(dq), v) ELSE Append(dq, v)

\* sum(self.recent_predictions)
CountTrue(dq) == Cardinality({i \in 1..Len(dq) : dq[i]})

\* alert_ratio > 0.8, > 0.5, > 0.2 with alert_ratio = t / n.  For n <= 100 the
\* double t / n equals the literal's double exactly when t / n is the literal's
\* value and differs from it by far more than a rounding error otherwise, so
\* the comparisons are those of the exact ratios: 10 t > 8 n, 5 n, 2 n.
update_threat_level_no_warmup(dq, level) ==
    LET t == CountTrue(dq)
        n == Len(dq)
    IN IF n = 0 THEN level
       ELSE IF 10 * t > 8 * n THEN "CRITICAL"
       ELSE IF 10 * t > 5 * n THEN "HIGH"
       ELSE IF 10 * t > 2 * n THEN "MEDIUM"
       ELSE "LOW"

update_threat_level_ascending(dq, level) ==
    LET t == CountTrue(dq)
        n == Len(dq)
    IN IF n < MinHistory THEN level
       ELSE IF 10 * t > 2 * n THEN "MEDIUM"
       ELSE IF 10 * t > 5 * n THEN "HIGH"
       ELSE IF 10 * t > 8 * n THEN "CRITICAL"
       ELSE "LOW"

update_threat_level_inclusive(dq, level) ==
    LET t == CountTrue(dq)
        n == Len(dq)
    IN IF n < MinHistory THEN level
       ELSE IF 10 * t >= 8 * n THEN "CRITICAL"
       ELSE IF 10 * t >= 5 * n THEN "HIGH"
       ELSE IF 10 * t >= 2 * n THEN "MEDIUM"
       ELSE "LOW"

update_threat_level(dq, level) ==
    LET t == CountTrue(dq)
        n == Len(dq)
    IN IF n < MinHistory THEN level
       ELSE IF 10 * t > 8 * n THEN "CRITICAL"
       ELSE IF 10 * t > 5 * n THEN "HIGH"
       ELSE IF 10 * t > 2 * n THEN "MEDIUM"
       ELSE "LOW"

(***************************************************************************)
(* TrafficMonitor: construction and the per-packet and per-window code     *)
(***************************************************************************)
NoTime == -1        \* "last_alert_time": None

\* self.stats as __init__ leaves it
InitStats ==
    [packets_processed |-> 0, alerts_triggered |-> 0,
     last_alert_time |-> NoTime, current_threat_level |-> "LOW"]

\* tcp_flags of a delivered packet: 2 is a bare SYN, 0 stands for the rest
PacketFlags == {0, 2}

\* _extract_features: the record appended to current_window.  The model keeps
\* tcp_flags of the six fields; id tells the records of a run apart.
extract_features(id, flags) == [id |-> id, tcp_flags |-> flags]

\* The statistics _analyze_window reduces a non-empty batch to.
window_features(batch) ==
    <<Len(batch), Cardinality({i \in 1..Len(batch) : batch[i].tcp_flags = 2})>>

\* current_time - self.window_start_time >= self.window_size
window_complete == now - window_start_time >= WindowSize

\* threading.Thread(target=...): a capture thread starts in sniff(), an
\* analysis thread at the head of the while loop.
NewThread(kind) ==
    [kind |-> kind,
     pc |-> IF kind = "capture" THEN "sniff" ELSE "loop",
     batch |-> <<>>,
     verdict |-> FALSE,
     read |-> 0]

ThreadIds == 1..Len(threads)

At(t, kind, pc) == threads[t].kind = kind /\ threads[t].pc = pc

\* The thread's target has returned ("done") or an exception ended it ("dead")
Ended(t) == threads[t].pc \in {"done", "dead"}

InAnalyze(t, pc) == threads[t].pc = pc

Goto(t, pc) == threads' = [threads EXCEPT ![t].pc = pc]

\* Where _analyze_window returns to: _process_packet ends and sniff asks its
\* stop_filter; _run_analysis sleeps and re-tests its loop condition.
ReturnPc(t) == IF threads[t].kind = "capture" THEN "stop_filter" ELSE "loop"

\* An exception leaving _analyze_window: in the capture thread it leaves prn
\* and sniff and reaches the except clause of _capture_traffic, which calls
\* self.stop(); in the analysis thread nothing catches it and the thread ends.
RaisePc(t) == IF threads[t].kind = "capture" THEN "stop" ELSE "dead"

history_vars == <<delivered, calls, predict_log, verdict_log>>

pure_vars == <<detector, X, result, store, loaded, alert_config, window_stats,
               detector_config, percentile_log>>

control_vars == <<monitor, caller, response>>

(***************************************************************************)
(* The capture thread: _capture_traffic, sniff and _process_packet         *)
(***************************************************************************)
\* sniff delivers a packet to prn=_process_packet, which appends its features.
\* (scapy packets are always truthy: `if not packet` never returns early.)
process_packet_append(t) ==
    /\ At(t, "capture", "sniff")
    /\ delivered < MaxPackets
    /\ \E flags \in PacketFlags :
         current_window' =
             Append(current_window, extract_features(delivered + 1, flags))
    /\ delivered' = delivered + 1
    /\ Goto(t, "count")
    /\ UNCHANGED <<now, is_running, window_start_time, recent_predictions,
                   stats, capture_thread, analysis_thread, control_vars,
                   pure_vars, calls, predict_log, verdict_log>>

\* self.stats["packets_processed"] += 1
process_packet_count(t) ==
    /\ At(t, "capture", "count")
    /\ stats' = [stats EXCEPT !.packets_processed = @ + 1]
    /\ Goto(t, "check")
    /\ UNCHANGED <<now, is_running, current_window, window_start_time,
                   recent_predictions, capture_thread, analysis_thread,
                   control_vars, pure_vars, history_vars>>

\* if current_time - self.window_start_time >= self.window_size
process_packet_check(t) ==
    /\ At(t, "capture", "check")
    /\ Goto(t, IF window_complete THEN "aw_empty" ELSE "stop_filter")
    /\ UNCHANGED <<now, monitor_vars, control_vars, pure_vars, history_vars>>

\* stop_filter=lambda _: not self.is_running, asked after prn returned
capture_stop_filter(t) ==
    /\ At(t, "capture", "stop_filter")
    /\ Goto(t, IF ~is_running THEN "done" ELSE "sniff")
    /\ UNCHANGED <<now, monitor_vars, control_vars, pure_vars, history_vars>>

\* sniff itself raises (the interface is gone, no permission to capture)
capture_error(t) ==
    /\ At(t, "capture", "sniff")
    /\ Goto(t, "stop")
    /\ UNCHANGED <<now, monitor_vars, control_vars, pure_vars, history_vars>>

\* self.stop() called by the capture thread from its except clause
capture_stop(t) ==
    /\ threads[t].kind = "capture"
    /\ \/ /\ threads[t].pc = "stop"
          /\ is_running' = FALSE
          /\ Goto(t, "join_capture")
       \/ /\ threads[t].pc = "join_capture"
          \* Thread.join on the current thread raises RuntimeError; on another
          \* thread it returns when that one has ended or after the timeout
          /\ Goto(t, IF capture_thread = t THEN "dead" ELSE "join_analysis")
          /\ UNCHANGED is_running
       \/ /\ threads[t].pc = "join_analysis"
          /\ Goto(t, "done")
          /\ UNCHANGED is_running
    /\ UNCHANGED <<now, current_window, window_start_time, recent_predictions,
                   stats, capture_thread, analysis_thread, control_vars,
                   pure_vars, history_vars>>

(***************************************************************************)
(* The analysis thread: _run_analysis                                      *)
(***************************************************************************)
\* `while True` in place of the test of the flag (contrast)
run_analysis_loop_forever(t) ==
    /\ At(t, "analysis", "loop")
    /\ Goto(t, "check")
    /\ UNCHANGED <<now, monitor_vars, control_vars, pure_vars, history_vars>>

\* while self.is_running  (after time.sleep(0.1), from the second pass on)
run_analysis_loop(t) ==
    /\ At(t, "analysis", "loop")
    /\ Goto(t, IF is_running THEN "check" ELSE "done")
    /\ UNCHANGED <<now, monitor_vars, control_vars, pure_vars, history_vars>>

\* if current_time - self.window_start_time >= self.window_size
run_analysis_check(t) ==
    /\ At(t, "analysis", "check")
    /\ Goto(t, IF window_complete THEN "aw_empty" ELSE "loop")
    /\ UNCHANGED <<now, monitor_vars, control_vars, pure_vars, history_vars>>

(***************************************************************************)
(* _analyze_window, statement by statement, run by either thread           *)
(***************************************************************************)
\* if not self.current_window: return
analyze_window_skip_records_false(t) ==
    /\ InAnalyze(t, "aw_empty")
    /\ IF current_window = <<>>
       THEN /\ Goto(t, ReturnPc(t))
            /\ recent_predictions' = deque_append(recent_predictions, FALSE)
       ELSE /\ Goto(t, "aw_read")
            /\ UNCHANGED recent_predictions
    /\ UNCHANGED <<now, is_running, current_window, window_start_time, stats,
                   capture_thread, analysis_thread, control_vars, pure_vars,
                   history_vars>>

analyze_window_empty(t) ==
    /\ InAnalyze(t, "aw_empty")
    /\ Goto(t, IF current_window = <<>> THEN ReturnPc(t) ELSE "aw_read")
    /\ UNCHANGED <<now, monitor_vars, control_vars, pure_vars, history_vars>>

\* df = pd.DataFrame(self.current_window) and the statistics over it; on a
\* list emptied since the test above, df["packet_size"] raises KeyError
analyze_window_read(t) ==
    /\ InAnalyze(t, "aw_read")
    /\ IF current_window = <<>>
       THEN Goto(t, RaisePc(t))
       ELSE threads' = [threads EXCEPT ![t].batch = current_window,
                                       ![t].pc = "aw_predict"]
    /\ UNCHANGED <<now, monitor_vars, control_vars, pure_vars, history_vars>>

\* is_anomaly, predictions = self.detector.predict(feature_vector)
analyze_window_predict(t) ==
    /\ InAnalyze(t, "aw_predict")
    /\ LET r == predict(detector, window_features(threads[t].batch))
       IN IF r.raised
          THEN Goto(t, RaisePc(t))
          ELSE threads' = [threads EXCEPT ![t].verdict = r.combined,
                                          ![t].pc = "aw_append"]
    /\ predict_log' = Append(predict_log, threads[t].batch)
    /\ UNCHANGED <<now, monitor_vars, control_vars, pure_vars, delivered,
                   calls, verdict_log>>

\* self.recent_predictions.append(is_anomaly[0])
analyze_window_append(t) ==
    /\ InAnalyze(t, "aw_append")
    /\ recent_predictions' = deque_append(recent_predictions, threads[t].verdict)
    /\ verdict_log' = Append(verdict_log, threads[t].verdict)
    /\ Goto(t, "aw_update")
    /\ UNCHANGED <<now, is_running, current_window, window_start_time, stats,
                   capture_thread, analysis_thread, control_vars, pure_vars,
                   delivered, calls, predict_log>>

\* self._update_threat_level()
analyze_window_update(t) ==
    /\ InAnalyze(t, "aw_update")
    /\ stats' = [stats EXCEPT !.current_threat_level =
                     update_threat_level(recent_predictions, @)]
    /\ Goto(t, "aw_reset")
    /\ UNCHANGED <<now, is_running, current_window, window_start_time,
                   recent_predictions, capture_thread, analysis_thread,
                   control_vars, pure_vars, history_vars>>

\* self.current_window = []
analyze_window_reset(t) ==
    /\ InAnalyze(t, "aw_reset")
    /\ current_window' = <<>>
    /\ Goto(t, "aw_reset_time")
    /\ UNCHANGED <<now, is_running, window_start_time, recent_predictions,
                   stats, capture_thread, analysis_thread, control_vars,
                   pure_vars, history_vars>>

\* self.window_start_time = time.time()
analyze_window_reset_time(t) ==
    /\ InAnalyze(t, "aw_reset_time")
    /\ window_start_time' = now
    /\ Goto(t, "aw_alert")
    /\ UNCHANGED <<now, is_running, current_window, recent_predictions, stats,
                   capture_thread, analysis_thread, control_vars, pure_vars,
                   history_vars>>

\* if is_anomaly[0]: and the read of self.stats["alerts_triggered"] that
\* `+= 1` begins with.  The statement is a read, an addition and a store, and
\* the interpreter may switch threads between them.
analyze_window_alert(t) ==
    /\ InAnalyze(t, "aw_alert")
    /\ threads' = IF threads[t].verdict
                  THEN [threads EXCEPT ![t].pc = "aw_alert_store",
                                       ![t].read = stats.alerts_triggered]
                  ELSE [threads EXCEPT ![t].pc = ReturnPc(t),
                                       ![t].batch = <<>>,
                                       ![t].verdict = FALSE]
    /\ UNCHANGED <<now, monitor_vars, control_vars, pure_vars, history_vars>>

\* the store of `+= 1`; self.stats["last_alert_time"] = time.time(); return
analyze_window_alert_store(t) ==
    /\ InAnalyze(t, "aw_alert_store")
    /\ stats' = [stats EXCEPT !.alerts_triggered = threads[t].read + 1,
                              !.last_alert_time = now]
    /\ threads' = [threads EXCEPT ![t].pc = ReturnPc(t), ![t].batch = <<>>,
                                  ![t].verdict = FALSE, ![t].read = 0]
    /\ UNCHANGED <<now, is_running, current_window, window_start_time,
                   recent_predictions, capture_thread, analysis_thread,
                   control_vars, pure_vars, history_vars>>

(***************************************************************************)
(* TrafficMonitor.start and stop, and the control plane of server.py.      *)
(* One context (the server's event loop) makes the calls, one at a time;   *)
(* the threads run between its statements.                                 *)
(***************************************************************************)
\* caller.op is the call being made, or the last one made once it has returned
Idle == [pc |-> "idle", op |-> "none"]

Called(op, pc) == [pc |-> pc, op |-> op]

ApiCalls == {"start_monitoring", "stop_monitoring"}

\* TrafficMonitor.__init__.  The instance the global referred to before is
\* garbage to the control plane: its threads act on that instance alone and
\* are not followed further.
\* (Spec posts no alert thresholds: alert_config is
\* NoAlertConfig throughout, as on every new instance.)
construct ==
    /\ current_window' = <<>>
    /\ window_start_time' = now
    /\ recent_predictions' = <<>>
    /\ capture_thread' = 0
    /\ analysis_thread' = 0
    /\ stats' = InitStats
    /\ threads' = <<>>

\* start() on a running monitor: logger.warning(...); return
start_running ==
    /\ response' = "already running"
    /\ caller' = Called("start", "idle")
    /\ UNCHANGED <<monitor_vars, threads, monitor>>

\* TrafficMonitor.start(), called on the instance directly.  A stopped instance
\* is started again only once the threads of its earlier run have ended.
start ==
    /\ caller.pc = "idle"
    /\ calls < MaxCalls
    /\ calls' = calls + 1
    /\ monitor # 0
    /\ IF is_running
       THEN start_running
       ELSE /\ \A t \in ThreadIds : Ended(t)
            /\ is_running' = TRUE
            /\ caller' = Called("start", "start_capture")
            /\ UNCHANGED <<current_window, window_start_time,
                           recent_predictions, stats, capture_thread,
                           analysis_thread, threads, monitor, response>>
    /\ UNCHANGED <<now, pure_vars, delivered, predict_log, verdict_log>>

\* POST /monitor/start with a monitor running: HTTPException(400)
start_monitoring_active_replaces ==
    /\ response' = "400 Monitoring is already active"
    /\ caller' = Called("start_monitoring", "idle")
    /\ monitor' = monitor + 1
    /\ construct
    /\ UNCHANGED is_running

start_monitoring_active ==
    /\ response' = "400 Monitoring is already active"
    /\ caller' = Called("start_monitoring", "idle")
    /\ UNCHANGED <<monitor_vars, threads, monitor>>

\* POST /monitor/start
start_monitoring ==
    /\ caller.pc = "idle"
    /\ calls < MaxCalls
    /\ calls' = calls + 1
    /\ IF monitor # 0 /\ is_running
       THEN start_monitoring_active
       ELSE /\ monitor' = monitor + 1
            /\ construct
            \* monitor.start(), up to self.is_running = True
            /\ is_running' = TRUE
            /\ caller' = Called("start_monitoring", "start_capture")
            /\ UNCHANGED response
    /\ UNCHANGED <<now, pure_vars, delivered, predict_log, verdict_log>>

\* self.capture_thread = threading.Thread(...); self.capture_thread.start()
start_capture_thread ==
    /\ caller.pc = "start_capture"
    /\ threads' = Append(threads, NewThread("capture"))
    /\ capture_thread' = Len(threads) + 1
    /\ caller' = [caller EXCEPT !.pc = "start_analysis"]
    /\ UNCHANGED <<now, is_running, current_window, window_start_time,
                   recent_predictions, stats, analysis_thread, monitor,
                   response, pure_vars, history_vars>>

\* self.analysis_thread = threading.Thread(...); self.analysis_thread.start()
\* and the return to the caller
start_analysis_thread ==
    /\ caller.pc = "start_analysis"
    /\ threads' = Append(threads, NewThread("analysis"))
    /\ analysis_thread' = Len(threads) + 1
    /\ caller' = [caller EXCEPT !.pc = "idle"]
    /\ response' = IF caller.op \in ApiCalls THEN "success: started" ELSE "started"
    /\ UNCHANGED <<now, is_running, current_window, window_start_time,
                   recent_predictions, stats, capture_thread, monitor,
                   pure_vars, history_vars>>

\* TrafficMonitor.stop(), called on the instance directly
stop ==
    /\ caller.pc = "idle"
    /\ calls < MaxCalls
    /\ calls' = calls + 1
    /\ monitor # 0
    /\ is_running' = FALSE
    /\ caller' = Called("stop", "stop_join_capture")
    /\ UNCHANGED <<now, current_window, window_start_time, recent_predictions,
                   stats, capture_thread, analysis_thread, threads, monitor,
                   response, pure_vars, delivered, predict_log, verdict_log>>

\* POST /monitor/stop
stop_monitoring ==
    /\ caller.pc = "idle"
    /\ calls < MaxCalls
    /\ calls' = calls + 1
    /\ IF monitor = 0 \/ ~is_running
       THEN /\ response' = "400 Monitoring is not active"
            /\ caller' = Called("stop_monitoring", "idle")
            /\ UNCHANGED is_running
       ELSE /\ is_running' = FALSE
            /\ caller' = Called("stop_monitoring", "stop_join_capture")
            /\ UNCHANGED response
    /\ UNCHANGED <<now, current_window, window_start_time, recent_predictions,
                   stats, capture_thread, analysis_thread, threads, monitor,
                   pure_vars, delivered, predict_log, verdict_log>>

\* self.capture_thread.join() with no timeout (contrast): returns only once
\* the thread has ended
stop_join_capture_no_timeout ==
    /\ caller.pc = "stop_join_capture"
    /\ capture_thread \in ThreadIds => Ended(capture_thread)
    /\ caller' = [caller EXCEPT !.pc = "stop_join_analysis"]
    /\ UNCHANGED <<now, monitor_vars, threads, monitor, response, pure_vars,
                   history_vars>>

\* if self.capture_thread: self.capture_thread.join(timeout=1.0)
\* join returns when the thread has ended or when the timeout has run out,
\* whichever comes first: the step is always possible.
stop_join_capture ==
    /\ caller.pc = "stop_join_capture"
    /\ caller' = [caller EXCEPT !.pc = "stop_join_analysis"]
    /\ UNCHANGED <<now, monitor_vars, threads, monitor, response, pure_vars,
                   history_vars>>

\* if self.analysis_thread: self.analysis_thread.join(timeout=1.0); return
stop_join_analysis ==
    /\ caller.pc = "stop_join_analysis"
    /\ caller' = [caller EXCEPT !.pc = "idle"]
    /\ response' = IF caller.op \in ApiCalls THEN "success: stopped" ELSE "stopped"
    /\ UNCHANGED <<now, monitor_vars, threads, monitor, pure_vars,
                   history_vars>>

\* a second passes
Tick ==
    /\ now < MaxTime
    /\ now' = now + 1
    /\ UNCHANGED <<monitor_vars, threads, control_vars, pure_vars,
                   history_vars>>

(***************************************************************************)
(* Spec: the server after startup_event, no monitor yet                    *)
(***************************************************************************)
NoResult == [state |-> "none", combined |-> FALSE, predictions |-> NoPredictions]

ZeroVector == [i \in 1..Dim |-> 0]

UnitVector == [i \in 1..Dim |-> 1]

\* A detector with nothing enabled: __init__ with every algorithm disabled
EmptyDetector ==
    [algorithms |-> {},
     scaler |-> [fitted |-> FALSE, mean |-> ZeroVector, scale |-> UnitVector],
     z_threshold |-> 0,
     forest |-> [fitted |-> FALSE, outliers |-> {}],
     autoencoder |-> [built |-> FALSE, recon |-> ZeroVector],
     ae_threshold |-> 0]

\* The statistical algorithm alone, as train leaves it fitted (a detector
\* trained in this process): a window is anomalous unless it holds one packet
\* that is no SYN
StatisticalDetector ==
    [EmptyDetector EXCEPT !.algorithms = {"statistical"},
                          !.scaler = [fitted |-> TRUE,
                                      mean |-> <<1, 0>>,
                                      scale |-> UnitVector]]

\* The statistical algorithm alone, as __init__ leaves it (no model store)
UnfittedDetector == [EmptyDetector EXCEPT !.algorithms = {"statistical"}]

SpecDetectors == {StatisticalDetector, UnfittedDetector}

\* An empty model directory
NoStore ==
    [present |-> FALSE,
     files |-> {},
     statistical_scaler |-> [copy |-> TRUE, with_mean |-> TRUE, with_std |-> TRUE],
     isolation_forest |-> EmptyDetector.forest,
     autoencoder |-> EmptyDetector.autoencoder,
     autoencoder_threshold |-> 0]

\* No second detector built yet
NotLoaded == [present |-> FALSE, d |-> EmptyDetector]

\* A TrafficMonitor as __init__ leaves it has no threshold attributes
NoAlertConfig == [set |-> FALSE, critical |-> 0, high |-> 0, medium |-> 0]

\* A real number the statistics produce: the fraction num / den, or NaN
NaN == [nan |-> TRUE, num |-> 0, den |-> 0]

Real(num, den) == [nan |-> FALSE, num |-> num, den |-> den]

\* No window reduced yet
NoStats ==
    [computed |-> FALSE, packet_count |-> 0, avg_packet_size |-> NaN,
     std_packet_size |-> NaN, syn_ratio |-> NaN]

\* No configuration kept: the detectors enumerated directly
NoConfig == [algorithms |-> {}, z_score_threshold |-> 0, threshold |-> 0]

\* What the specifications that do not persist models, configure alerts or
\* look at the statistics leave alone
Untouched ==
    /\ store = NoStore
    /\ loaded = NotLoaded
    /\ alert_config = NoAlertConfig
    /\ window_stats = NoStats
    /\ detector_config = NoConfig
    /\ percentile_log = <<>>

Init ==
    /\ now = 0
    /\ monitor = 0
    /\ is_running = FALSE
    /\ current_window = <<>>
    /\ window_start_time = 0
    /\ recent_predictions = <<>>
    /\ stats = InitStats
    /\ capture_thread = 0
    /\ analysis_thread = 0
    /\ threads = <<>>
    /\ caller = Idle
    /\ response = "none"
    /\ detector \in SpecDetectors
    /\ X = ZeroVector
    /\ result = NoResult
    /\ Untouched
    /\ delivered = 0
    /\ calls = 0
    /\ predict_log = <<>>
    /\ verdict_log = <<>>

Next ==
    \/ \E t \in ThreadIds : process_packet_append(t)
    \/ \E t \in ThreadIds : process_packet_count(t)
    \/ \E t \in ThreadIds : process_packet_check(t)
    \/ \E t \in ThreadIds : capture_stop_filter(t)
    \/ \E t \in ThreadIds : capture_error(t)
    \/ \E t \in ThreadIds : capture_stop(t)
    \/ \E t \in ThreadIds : run_analysis_loop(t)
    \/ \E t \in ThreadIds : run_analysis_check(t)
    \/ \E t \in ThreadIds : analyze_window_empty(t)
    \/ \E t \in ThreadIds : analyze_window_read(t)
    \/ \E t \in ThreadIds : analyze_window_predict(t)
    \/ \E t \in ThreadIds : analyze_window_append(t)
    \/ \E t \in ThreadIds : analyze_window_update(t)
    \/ \E t \in ThreadIds : analyze_window_reset(t)
    \/ \E t \in ThreadIds : analyze_window_reset_time(t)
    \/ \E t \in ThreadIds : analyze_window_alert(t)
    \/ \E t \in ThreadIds : analyze_window_alert_store(t)
    \/ start
    \/ start_monitoring
    \/ start_capture_thread
    \/ start_analysis_thread
    \/ stop
    \/ stop_monitoring
    \/ stop_join_capture
    \/ stop_join_analysis
    \/ Tick

Spec == Init /\ [][Next]_vars

(***************************************************************************)
(* SpecPredict: AnomalyDetector.predict over bounded detectors and inputs  *)
(***************************************************************************)
\* Fitted parameters range over the vectors with all features alike.
ParamVectors == {ZeroVector, UnitVector}

\* Every configuration of enabled algorithms, each fitted or not.
PredictDetectors ==
    [algorithms : SUBSET AlgorithmNames,
     scaler : [fitted : BOOLEAN, mean : ParamVectors, scale : {UnitVector}],
     z_threshold : 0..1,
     forest : [fitted : BOOLEAN, outliers : {{}, {ZeroVector}, Vectors}],
     autoencoder : [built : BOOLEAN, recon : ParamVectors],
     ae_threshold : 0..1]

\* The monitor's variables, which SpecPredict and SpecThreat leave as a
\* freshly constructed, never started instance has them.
FreshMonitor ==
    /\ now = 0
    /\ monitor = 1
    /\ is_running = FALSE
    /\ current_window = <<>>
    /\ window_start_time = 0
    /\ recent_predictions = <<>>
    /\ stats = InitStats
    /\ capture_thread = 0
    /\ analysis_thread = 0
    /\ threads = <<>>
    /\ caller = Idle
    /\ response = "none"
    /\ delivered = 0
    /\ calls = 0
    /\ predict_log = <<>>
    /\ verdict_log = <<>>

InitPredict ==
    /\ FreshMonitor
    /\ detector \in PredictDetectors
    /\ X \in Vectors
    /\ result = NoResult
    /\ Untouched

\* predict(X) is called and returns or raises
predict_call ==
    /\ result.state = "none"
    /\ LET r == predict(detector, X)
       IN result' = [state |-> IF r.raised THEN "raised" ELSE "returned",
                     combined |-> r.combined,
                     predictions |-> r.predictions]
    /\ UNCHANGED <<now, monitor_vars, threads, control_vars, detector, X,
                   store, loaded, alert_config, window_stats,
                   detector_config, percentile_log, history_vars>>

NextPredict == predict_call

SpecPredict == InitPredict /\ [][NextPredict]_vars

(***************************************************************************)
(* SpecThreat: one thread running _analyze_window from the verdict on      *)
(* (lines 133-145), window after window, and the control plane posting     *)
(* alert thresholds in between                                             *)
(***************************************************************************)
\* The number of places where a verdict differs from the one before it
Flips(log) == Cardinality({i \in 1..(Len(log) - 1) : log[i] # log[i + 1]})

InitThreat ==
    /\ FreshMonitor
    /\ detector = EmptyDetector
    /\ X = ZeroVector
    /\ result = NoResult
    /\ store = NoStore
    /\ loaded = NotLoaded
    /\ alert_config = NoAlertConfig
    /\ window_stats = NoStats
    /\ detector_config = NoConfig
    /\ percentile_log = <<>>

\* recent_predictions.append(v); _update_threat_level(); the window reset;
\* the alert statistics
record_verdict(v) ==
    /\ Len(verdict_log) < MaxWindows
    /\ Flips(Append(verdict_log, v)) <= MaxFlips
    /\ recent_predictions' = deque_append(recent_predictions, v)
    /\ verdict_log' = Append(verdict_log, v)
    /\ stats' = [stats EXCEPT
           !.current_threat_level =
               update_threat_level(recent_predictions', @),
           !.alerts_triggered = IF v THEN @ + 1 ELSE @,
           !.last_alert_time = IF v THEN now ELSE @]
    /\ current_window' = <<>>
    /\ window_start_time' = now
    /\ UNCHANGED <<now, is_running, capture_thread, analysis_thread, threads,
                   control_vars, pure_vars, delivered, calls, predict_log>>

\* The AlertConfig bodies clients post, in tenths: the defaults 0.8, 0.5, 0.2
\* and 0.9, 0.6, 0.3
AlertConfigs ==
    {[critical |-> 8, high |-> 5, medium |-> 2],
     [critical |-> 9, high |-> 6, medium |-> 3]}

\* POST /alerts/config: the three values become attributes of the monitor
update_alert_config(config) ==
    /\ IF monitor = 0
       THEN /\ response' = "400 Monitoring is not initialized"
            /\ UNCHANGED alert_config
       ELSE /\ alert_config' = [set |-> TRUE,
                                critical |-> config.critical,
                                high |-> config.high,
                                medium |-> config.medium]
            /\ response' = "success: thresholds updated"
    /\ UNCHANGED <<now, monitor_vars, threads, monitor, caller, detector, X,
                   result, store, loaded, window_stats,
                   detector_config, percentile_log, history_vars>>

NextThreat ==
    \/ \E v \in BOOLEAN : record_verdict(v)
    \/ \E config \in AlertConfigs : update_alert_config(config)

SpecThreat == InitThreat /\ [][NextThreat]_vars

(***************************************************************************)
(* SpecLive: Spec under the scheduling the runtime guarantees              *)
(***************************************************************************)
\* The next statement of an analysis thread
analysis_step ==
    \E t \in ThreadIds :
        /\ threads[t].kind = "analysis"
        /\ \/ run_analysis_loop(t)
           \/ run_analysis_check(t)
           \/ analyze_window_empty(t)
           \/ analyze_window_read(t)
           \/ analyze_window_predict(t)
           \/ analyze_window_append(t)
           \/ analyze_window_update(t)
           \/ analyze_window_reset(t)
           \/ analyze_window_reset_time(t)
           \/ analyze_window_alert(t)
           \/ analyze_window_alert_store(t)

\* join(timeout=1.0) returns after a second at the latest, and the interpreter
\* keeps scheduling a thread whose next statement can run (time.sleep(0.1)
\* returns).  Nothing makes the packet source deliver a packet or the
\* control plane's clients call.
SpecLive ==
    /\ Spec
    /\ WF_vars(stop_join_capture)
    /\ WF_vars(stop_join_analysis)
    /\ WF_vars(analysis_step)

(***************************************************************************)
(* SpecRoundTrip: save_models, then load_models into a detector built from *)
(* the same configuration                                                  *)
(***************************************************************************)
\* AnomalyDetector(config): the algorithms the configuration enables, none of
\* them fitted
AnomalyDetector(algorithms, z_score_threshold) ==
    [EmptyDetector EXCEPT !.algorithms = algorithms,
                          !.z_threshold = z_score_threshold]

\* StandardScaler.get_params(): the constructor's arguments.  The fitted mean_
\* and scale_ are attributes of the scaler, not parameters.
scaler_get_params(scaler) ==
    [copy |-> TRUE, with_mean |-> TRUE, with_std |-> TRUE]

\* StandardScaler.set_params(**params): sets the constructor's arguments and
\* leaves mean_, scale_ and whether the scaler is fitted as they were
scaler_set_params(scaler, params) == scaler

\* save_models(save_dir): the files written, one group per enabled algorithm
save_models(d) ==
    [present |-> TRUE,
     files |-> d.algorithms,
     statistical_scaler |->
         IF "statistical" \in d.algorithms
         THEN scaler_get_params(d.scaler) ELSE NoStore.statistical_scaler,
     isolation_forest |->
         IF "isolation_forest" \in d.algorithms
         THEN d.forest ELSE NoStore.isolation_forest,
     autoencoder |->
         IF "autoencoder" \in d.algorithms
         THEN d.autoencoder ELSE NoStore.autoencoder,
     autoencoder_threshold |->
         IF "autoencoder" \in d.algorithms
         THEN d.ae_threshold ELSE NoStore.autoencoder_threshold]

\* load_models(load_dir) on detector d
load_models(d, dir) ==
    [d EXCEPT
        !.scaler = IF "statistical" \in d.algorithms
                   THEN scaler_set_params(@, dir.statistical_scaler) ELSE @,
        !.forest = IF "isolation_forest" \in d.algorithms
                   THEN dir.isolation_forest ELSE @,
        !.autoencoder = IF "autoencoder" \in d.algorithms
                        THEN dir.autoencoder ELSE @,
        !.ae_threshold = IF "autoencoder" \in d.algorithms
                         THEN dir.autoencoder_threshold ELSE @]

\* The detectors train leaves: every enabled algorithm fitted, the others as
\* __init__ left them
TrainedDetectors ==
    {d \in PredictDetectors :
        /\ d.scaler.fitted = ("statistical" \in d.algorithms)
        /\ d.forest.fitted = ("isolation_forest" \in d.algorithms)
        /\ d.autoencoder.built = ("autoencoder" \in d.algorithms)}

InitRoundTrip ==
    /\ FreshMonitor
    /\ detector \in TrainedDetectors
    /\ X \in Vectors
    /\ result = NoResult
    /\ Untouched

\* detector.save_models(model_dir), as train_anomaly_detector.py calls it
save_models_call ==
    /\ ~store.present
    /\ store' = save_models(detector)
    /\ UNCHANGED <<now, monitor_vars, threads, control_vars, detector, X,
                   result, loaded, alert_config, window_stats,
                   detector_config, percentile_log, history_vars>>

\* detector = AnomalyDetector(config); detector.load_models(model_dir), as
\* startup_event does
load_models_call ==
    /\ store.present
    /\ ~loaded.present
    /\ loaded' =
           [present |-> TRUE,
            d |-> load_models(AnomalyDetector(detector.algorithms,
                                              detector.z_threshold), store)]
    /\ UNCHANGED <<now, monitor_vars, threads, control_vars, detector, X,
                   result, store, alert_config, window_stats,
                   detector_config, percentile_log, history_vars>>

NextRoundTrip ==
    \/ predict_call
    \/ save_models_call
    \/ load_models_call

SpecRoundTrip == InitRoundTrip /\ [][NextRoundTrip]_vars

(***************************************************************************)
(* SpecWindow: the statistics _analyze_window reduces a batch to            *)
(* (lines 107-129), over bounded batches of records                        *)
(***************************************************************************)
MaxBatch == 3       \* records in a batch
MaxSize == 2        \* len(packet) is 1..MaxSize

\* A record with the fields of _extract_features the statistics below read
sized_features(id, flags, size) ==
    [id |-> id, tcp_flags |-> flags, packet_size |-> size]

WindowBatches ==
    UNION {{[i \in 1..n |-> sized_features(i, f[i][1], f[i][2])] :
               f \in [1..n -> PacketFlags \X (1..MaxSize)]} : n \in 0..MaxBatch}

\* df["packet_size"].sum() and the sum of the squares
SumSizes(batch) ==
    LET RECURSIVE Sum(_)
        Sum(i) == IF i = 0 THEN 0 ELSE batch[i].packet_size + Sum(i - 1)
    IN Sum(Len(batch))

SumSquares(batch) ==
    LET RECURSIVE Sum(_)
        Sum(i) == IF i = 0 THEN 0
                  ELSE batch[i].packet_size * batch[i].packet_size + Sum(i - 1)
    IN Sum(Len(batch))

\* df["packet_size"].std(): pandas' sample standard deviation (ddof = 1), the
\* square root of sum((x - mean)^2) / (n - 1), and NaN when n - 1 <= 0.  Real
\* holds the variance (n sum(x^2) - sum(x)^2) / (n (n - 1)), whose root it is.
packet_size_std(batch) ==
    LET n == Len(batch)
        s == SumSizes(batch)
    IN IF n - 1 <= 0 THEN NaN
       ELSE Real(n * SumSquares(batch) - s * s, n * (n - 1))

\* The dict `stats` of lines 111-120, with the columns the model keeps
window_statistics(batch) ==
    LET n == Len(batch)
    IN [computed |-> TRUE,
        packet_count |-> n,
        avg_packet_size |-> Real(SumSizes(batch), n),
        std_packet_size |-> packet_size_std(batch),
        syn_ratio |-> Real(window_features(batch)[2], n)]

\* feature_vector = np.array([list(stats.values())]): feature_names is None
\* unless the caller of TrafficMonitor passes it, and server.py does not
feature_vector(ws) ==
    <<Real(ws.packet_count, 1), ws.avg_packet_size, ws.std_packet_size,
      ws.syn_ratio>>

InitWindow ==
    /\ now = 0
    /\ monitor = 1
    /\ is_running = FALSE
    /\ current_window \in WindowBatches
    /\ window_start_time = 0
    /\ recent_predictions = <<>>
    /\ stats = InitStats
    /\ capture_thread = 0
    /\ analysis_thread = 0
    /\ threads = <<>>
    /\ caller = Idle
    /\ response = "none"
    /\ detector = EmptyDetector
    /\ X = ZeroVector
    /\ result = NoResult
    /\ Untouched
    /\ delivered = 0
    /\ calls = 0
    /\ predict_log = <<>>
    /\ verdict_log = <<>>

\* _analyze_window up to the feature vector: nothing on an empty batch
analyze_window_statistics ==
    /\ ~window_stats.computed
    /\ current_window # <<>>
    /\ window_stats' = window_statistics(current_window)
    /\ UNCHANGED <<now, monitor_vars, threads, control_vars, detector, X,
                   result, store, loaded, alert_config, detector_config,
                   percentile_log, history_vars>>

NextWindow == analyze_window_statistics

SpecWindow == InitWindow /\ [][NextWindow]_vars

(***************************************************************************)
(* SpecFair: SpecLive with every started statement sequence running on     *)
(***************************************************************************)
\* The next statement of a capture thread that has a packet in hand or is in
\* its except clause (the arrival of a packet and a failure of sniff are not
\* among them)
capture_step ==
    \E t \in ThreadIds :
        /\ threads[t].kind = "capture"
        /\ \/ process_packet_count(t)
           \/ process_packet_check(t)
           \/ capture_stop_filter(t)
           \/ capture_stop(t)
           \/ analyze_window_empty(t)
           \/ analyze_window_read(t)
           \/ analyze_window_predict(t)
           \/ analyze_window_append(t)
           \/ analyze_window_update(t)
           \/ analyze_window_reset(t)
           \/ analyze_window_reset_time(t)
           \/ analyze_window_alert(t)
           \/ analyze_window_alert_store(t)

\* Both threads and a start() under way keep running.  Packets, failures of
\* the packet source, calls of the control plane and the clock are free.
SpecFair ==
    /\ SpecLive
    /\ WF_vars(capture_step)
    /\ WF_vars(start_capture_thread)
    /\ WF_vars(start_analysis_thread)

(***************************************************************************)
(* SpecRestart: start() and stop() on one running instance, with threads   *)
(* of an earlier run still alive.  The window does not end and the packet  *)
(* source does not fail while the calls are made.                          *)
(***************************************************************************)
\* start() on a stopped instance on which a thread of an earlier run has not
\* ended: start() tests is_running alone
start_lingering ==
    /\ caller.pc = "idle"
    /\ calls < MaxCalls
    /\ calls' = calls + 1
    /\ monitor # 0
    /\ ~is_running
    /\ \E t \in ThreadIds : ~Ended(t)
    /\ is_running' = TRUE
    /\ caller' = Called("start", "start_capture")
    /\ UNCHANGED <<now, current_window, window_start_time, recent_predictions,
                   stats, capture_thread, analysis_thread, threads, monitor,
                   response, pure_vars, delivered, predict_log, verdict_log>>

\* The first instance as POST /monitor/start leaves it when it returns; the
\* history variables count from here
InitRestart ==
    /\ now = 0
    /\ monitor = 1
    /\ is_running = TRUE
    /\ current_window = <<>>
    /\ window_start_time = 0
    /\ recent_predictions = <<>>
    /\ stats = InitStats
    /\ capture_thread = 1
    /\ analysis_thread = 2
    /\ threads = <<NewThread("capture"), NewThread("analysis")>>
    /\ caller = Called("start_monitoring", "idle")
    /\ response = "success: started"
    /\ detector = StatisticalDetector
    /\ X = ZeroVector
    /\ result = NoResult
    /\ Untouched
    /\ delivered = 0
    /\ calls = 0
    /\ predict_log = <<>>
    /\ verdict_log = <<>>

NextRestart ==
    \/ \E t \in ThreadIds : process_packet_append(t)
    \/ \E t \in ThreadIds : process_packet_count(t)
    \/ \E t \in ThreadIds : process_packet_check(t)
    \/ \E t \in ThreadIds : capture_stop_filter(t)
    \/ \E t \in ThreadIds : run_analysis_loop(t)
    \/ \E t \in ThreadIds : run_analysis_check(t)
    \/ start
    \/ start_lingering
    \/ start_capture_thread
    \/ start_analysis_thread
    \/ stop
    \/ stop_join_capture
    \/ stop_join_analysis

SpecRestart == InitRestart /\ [][NextRestart]_vars

(***************************************************************************)
(* SpecTrain: train, save_models and load_models on a detector built from  *)
(* a configuration that enables the autoencoder.  Here the autoencoder     *)
(* threshold and the reconstruction errors are held in hundredths, so that *)
(* the number held for the threshold is threshold * 100, the q that train  *)
(* passes to np.percentile.                                                *)
(***************************************************************************)
MaxTrains == 2      \* calls of train

\* config["algorithms"][2]["threshold"]: 0.5 and 0.95
Percentiles == {50, 95}

TrainConfigs ==
    [algorithms : {S \in SUBSET AlgorithmNames : "autoencoder" \in S},
     z_score_threshold : {1},
     threshold : Percentiles]

\* AnomalyDetector(config), with the threshold __init__ takes from the
\* configuration when the autoencoder is enabled
Configured(cfg) ==
    [AnomalyDetector(cfg.algorithms, cfg.z_score_threshold) EXCEPT
        !.ae_threshold = IF "autoencoder" \in cfg.algorithms
                         THEN cfg.threshold ELSE @]

\* What fitting on some training set can leave in the three models
Fits ==
    [mean : ParamVectors, outliers : {{}, {ZeroVector}}, recon : ParamVectors]

\* The reconstruction errors of some training sets of three rows, ascending
ReconstructionErrors == {<<0, 0, 100>>, <<0, 50, 100>>, <<50, 100, 200>>}

\* np.percentile(a, q) for 0 <= q <= 100, linear interpolation between the
\* two order statistics around position q / 100 * (n - 1); a is ascending
percentile(a, q) ==
    LET n == Len(a)
        pos == q * (n - 1)
        lo == pos \div 100
        hi == IF lo + 1 < n THEN lo + 1 ELSE lo
    IN a[lo + 1] + ((pos % 100) * (a[hi + 1] - a[lo + 1])) \div 100

\* train(X_train) on detector d, fit and errors being what the training set
\* gives.  np.percentile raises ValueError for a q outside [0, 100], after
\* the three models have been fitted and before the threshold is assigned.
train(d, fit, errors) ==
    LET fitted ==
            [d EXCEPT
                !.scaler = IF "statistical" \in d.algorithms
                           THEN [fitted |-> TRUE, mean |-> fit.mean,
                                 scale |-> UnitVector]
                           ELSE @,
                !.forest = IF "isolation_forest" \in d.algorithms
                           THEN [fitted |-> TRUE, outliers |-> fit.outliers]
                           ELSE @,
                !.autoencoder = IF "autoencoder" \in d.algorithms
                                THEN [built |-> TRUE, recon |-> fit.recon]
                                ELSE @]
    IN IF "autoencoder" \in d.algorithms /\ d.ae_threshold \in 0..100
       THEN [fitted EXCEPT !.ae_threshold = percentile(errors, @)]
       ELSE fitted

InitTrain ==
    /\ FreshMonitor
    /\ detector_config \in TrainConfigs
    /\ detector = Configured(detector_config)
    /\ X = ZeroVector
    /\ result = NoResult
    /\ store = NoStore
    /\ loaded = NotLoaded
    /\ alert_config = NoAlertConfig
    /\ window_stats = NoStats
    /\ percentile_log = <<>>

\* detector.train(X_train, X_val), as train_anomaly_detector.py calls it
train_call ==
    /\ Len(percentile_log) < MaxTrains
    /\ \E fit \in Fits, errors \in ReconstructionErrors :
           detector' = train(detector, fit, errors)
    /\ percentile_log' =
           IF "autoencoder" \in detector.algorithms
           THEN Append(percentile_log, detector.ae_threshold)
           ELSE percentile_log
    /\ UNCHANGED <<now, monitor_vars, threads, control_vars, X, result,
                   store, loaded, alert_config, window_stats,
                   detector_config, history_vars>>

\* detector.save_models(model_dir) once the autoencoder exists
train_save_models ==
    /\ "autoencoder" \in detector.algorithms => detector.autoencoder.built
    /\ save_models_call

\* A new process: detector = AnomalyDetector(config), then
\* detector.load_models(model_dir) when the directory exists
startup_load_models ==
    /\ store.present
    /\ detector' = load_models(Configured(detector_config), store)
    /\ UNCHANGED <<now, monitor_vars, threads, control_vars, X, result,
                   store, loaded, alert_config, window_stats,
                   detector_config, percentile_log, history_vars>>

NextTrain ==
    \/ train_call
    \/ train_save_models
    \/ startup_load_models

SpecTrain == InitTrain /\ [][NextTrain]_vars

(***************************************************************************)
(* SpecFrame: Spec continued from a running instance that has recorded     *)
(* nine verdicts, one short of the history the threat level needs, with    *)
(* GET /monitor/status among the calls.                                    *)
(***************************************************************************)
\* TrafficMonitor.get_stats(): the stats dict, the time since the window
\* began and the packets per second of that time, at least 1
get_stats ==
    [packets_processed |-> stats.packets_processed,
     alerts_triggered |-> stats.alerts_triggered,
     last_alert_time |-> stats.last_alert_time,
     current_threat_level |-> stats.current_threat_level,
     uptime |-> now - window_start_time,
     packets_per_second |->
         Real(stats.packets_processed,
              IF now - window_start_time > 1
              THEN now - window_start_time ELSE 1)]

\* A status handler that writes the threat level it reports
get_monitoring_status_resets ==
    /\ caller.pc = "idle"
    /\ calls < MaxCalls
    /\ calls' = calls + 1
    /\ response' = IF monitor = 0 THEN "inactive"
                   ELSE IF is_running THEN "active" ELSE "stopped"
    /\ caller' = Called("get_monitoring_status", "idle")
    /\ stats' = [stats EXCEPT !.current_threat_level = "LOW"]
    /\ UNCHANGED <<now, monitor, is_running, current_window,
                   window_start_time, recent_predictions, capture_thread,
                   analysis_thread, threads, pure_vars, delivered,
                   predict_log, verdict_log>>

\* GET /monitor/status: "inactive" without a monitor, else "active" or
\* "stopped" by is_running; the "stats" entry of the body is get_stats
get_monitoring_status ==
    /\ caller.pc = "idle"
    /\ calls < MaxCalls
    /\ calls' = calls + 1
    /\ response' = IF monitor = 0 THEN "inactive"
                   ELSE IF is_running THEN "active" ELSE "stopped"
    /\ caller' = Called("get_monitoring_status", "idle")
    /\ UNCHANGED <<now, monitor, monitor_vars, threads, pure_vars, delivered,
                   predict_log, verdict_log>>

\* Nine windows flagged by the detector: the level is still LOW
NineVerdicts == [i \in 1..(MinHistory - 1) |-> TRUE]

\* The first instance, running, after nine one-packet windows; now and the
\* history variables count from here
InitFrame ==
    /\ now = 0
    /\ monitor = 1
    /\ is_running = TRUE
    /\ current_window = <<>>
    /\ window_start_time = 0
    /\ recent_predictions = NineVerdicts
    /\ stats = [packets_processed |-> Len(NineVerdicts),
                alerts_triggered |-> Len(NineVerdicts),
                last_alert_time |-> 0,
                current_threat_level |-> "LOW"]
    /\ capture_thread = 1
    /\ analysis_thread = 2
    /\ threads = <<NewThread("capture"), NewThread("analysis")>>
    /\ caller = Called("start_monitoring", "idle")
    /\ response = "success: started"
    /\ detector = StatisticalDetector
    /\ X = ZeroVector
    /\ result = NoResult
    /\ Untouched
    /\ delivered = 0
    /\ calls = 0
    /\ predict_log = <<>>
    /\ verdict_log = <<>>

NextFrame ==
    \/ Next
    \/ get_monitoring_status

SpecFrame == InitFrame /\ [][NextFrame]_vars

(***************************************************************************)
(* The claims                                                              *)
(***************************************************************************)
\* The statements of _analyze_window from the read of the batch to the reset
\* of current_window, and all of them
DrainPcs == {"aw_predict", "aw_append", "aw_update", "aw_reset"}

AnalyzePcs ==
    {"aw_empty", "aw_read", "aw_reset_time", "aw_alert", "aw_alert_store"}
        \cup DrainPcs

Analyzing == {t \in ThreadIds : threads[t].pc \in AnalyzePcs}

\* C1: every completed window is reduced exactly once: no batch of packets is
\* passed to detector.predict twice.
C1_ReducedOnce ==
    \A i, j \in 1..Len(predict_log) :
        i # j => predict_log[i] # predict_log[j]

\* C2: accesses to the window state are serialized: two executions of
\* _analyze_window never overlap, and no record is appended to current_window
\* between the read of the batch and the reset of current_window.
C2_Serialized ==
    /\ Cardinality(Analyzing) <= 1
    /\ \A t \in ThreadIds :
           threads[t].pc \in DrainPcs =>
               ~(/\ Len(current_window) > Len(threads[t].batch)
                 /\ SubSeq(current_window, 1, Len(threads[t].batch))
                        = threads[t].batch)

BandOf(t, n) ==
    IF 10 * t > 8 * n THEN "CRITICAL"
    ELSE IF 10 * t > 5 * n THEN "HIGH"
    ELSE IF 10 * t > 2 * n THEN "MEDIUM"
    ELSE "LOW"

\* The history with its first FALSE verdict turned TRUE
OneMoreTrue(dq) ==
    IF \A i \in 1..Len(dq) : dq[i] THEN dq
    ELSE LET k == CHOOSE i \in 1..Len(dq) :
                      ~dq[i] /\ \A j \in 1..(i - 1) : dq[j]
         IN [dq EXCEPT ![k] = TRUE]

\* C4: after an update on a history of n >= 10 verdicts, t of them true, the
\* level is the band of t / n, whatever the level was before; it does not
\* decrease when the ratio increases (a verdict turned true, a true verdict
\* recorded next) nor increase when it decreases (a false verdict next).
C4_ThreatBands ==
    LET n == Len(recent_predictions)
        t == CountTrue(recent_predictions)
        level == stats.current_threat_level
    IN n >= MinHistory =>
        /\ level = BandOf(t, n)
        /\ \A prior \in ThreatLevels :
               update_threat_level(recent_predictions, prior) = level
        /\ Rank(update_threat_level(OneMoreTrue(recent_predictions), level))
               >= Rank(level)
        /\ Rank(update_threat_level(
                    deque_append(recent_predictions, TRUE), level))
               >= Rank(level)
        /\ Rank(update_threat_level(
                    deque_append(recent_predictions, FALSE), level))
               <= Rank(level)

\* C4's case: a full history, 81 of 100 true, and the level CRITICAL
C4_Witness ==
    /\ Len(recent_predictions) = MaxLen
    /\ 100 * CountTrue(recent_predictions) = 81 * MaxLen
    /\ stats.current_threat_level = "CRITICAL"

\* C5: with fewer than 10 verdicts in the history an update leaves the level
\* at its prior value, whatever that value and the verdicts are; a fresh
\* monitor stays LOW.
C5_WarmUp ==
    Len(recent_predictions) < MinHistory =>
        /\ stats.current_threat_level = "LOW"
        /\ \A prior \in ThreatLevels :
               update_threat_level(recent_predictions, prior) = prior

\* C5's case: nine windows analysed, all anomalous
C5_Witness ==
    /\ Len(recent_predictions) = MinHistory - 1
    /\ CountTrue(recent_predictions) = MinHistory - 1
    /\ stats.alerts_triggered = MinHistory - 1
    /\ stats.current_threat_level = "LOW"

HalfTrue ==
    /\ Len(recent_predictions) = MaxLen
    /\ 2 * CountTrue(recent_predictions) = MaxLen

\* C6 as claimed: 100 verdicts with exactly 50 true yield HIGH.
C6_HalfIsHigh == HalfTrue => stats.current_threat_level = "HIGH"

\* C6 as amended: 100 verdicts with exactly 50 true yield MEDIUM, since the
\* ratio 0.5 is not > 0.5 and is > 0.2.
C6_HalfIsMedium == HalfTrue => stats.current_threat_level = "MEDIUM"

\* C6's case: the history of 50 true and 50 false verdicts, just recorded
C6_Witness == HalfTrue /\ Len(verdict_log) = MaxLen

Min(a, b) == IF a < b THEN a ELSE b

\* C7: after k analysed windows the history holds the min(k, 100) most recent
\* verdicts in arrival order.
C7_BoundedFifo ==
    LET k == Len(verdict_log)
        m == Min(k, MaxLen)
    IN /\ Len(recent_predictions) = m
       /\ \A i \in 1..m : recent_predictions[i] = verdict_log[k - m + i]

\* C7's case: more than 100 windows analysed and the oldest verdict, unlike
\* the oldest one kept, evicted
C7_Witness ==
    /\ Len(verdict_log) > MaxLen
    /\ verdict_log[1] # recent_predictions[1]

\* C8: a window analysis entered on an empty batch returns at once: predict
\* is not called, and the history, the threat level and the alert statistics
\* are unchanged.
C8_EmptySkipped ==
    [][\A t \in ThreadIds :
          (/\ threads[t].pc = "aw_empty"
           /\ current_window = <<>>
           /\ t \in DOMAIN threads'
           /\ threads'[t] # threads[t])
          => /\ threads'[t].pc = ReturnPc(t)
             /\ predict_log' = predict_log
             /\ recent_predictions' = recent_predictions
             /\ verdict_log' = verdict_log
             /\ stats' = stats]_vars

\* C8's case: the window duration has elapsed and a thread has entered
\* _analyze_window with no record in the batch
C8_Witness ==
    \E t \in ThreadIds :
        /\ threads[t].pc = "aw_empty"
        /\ current_window = <<>>
        /\ window_complete

\* C9: whenever _analyze_window returns, after a reduction or after skipping
\* an empty batch, current_window is empty and window_start_time is the
\* current time.
C9_ResetAfterWindow ==
    [][\A t \in ThreadIds :
          (/\ threads[t].pc \in {"aw_empty", "aw_alert", "aw_alert_store"}
           /\ t \in DOMAIN threads'
           /\ threads'[t].pc = ReturnPc(t))
          => /\ current_window' = <<>>
             /\ window_start_time' = now]_vars

\* C10: start() and POST /monitor/start on a running monitor report it and
\* change nothing: no thread is created, the instance is not replaced, the
\* counters and the rest of the monitor keep their values.
C10_StartWhileRunning ==
    [][(/\ calls' = calls + 1
        /\ caller'.op \in {"start", "start_monitoring"}
        /\ monitor # 0
        /\ is_running)
       => /\ response' = IF caller'.op = "start"
                         THEN "already running"
                         ELSE "400 Monitoring is already active"
          /\ caller'.pc = "idle"
          /\ monitor' = monitor
          /\ threads' = threads
          /\ UNCHANGED monitor_vars]_vars

\* C10's case: the control plane has refused a second start of a monitor
\* that is running and has counted packets
C10_Witness ==
    /\ response = "400 Monitoring is already active"
    /\ caller = Called("start_monitoring", "idle")
    /\ is_running
    /\ stats.packets_processed > 0
    /\ \E t \in ThreadIds : ~Ended(t)

StopCalls == {"stop", "stop_monitoring"}

NotActiveResponses == {"not active", "400 Monitoring is not active"}

\* C11: a stop requested while no monitor is running (stop() on the instance,
\* POST /monitor/stop) returns at once with a "not active" report and leaves
\* is_running, the counters and the threat level unchanged.
C11_StopNotRunning ==
    [][(/\ calls' = calls + 1
        /\ caller'.op \in StopCalls
        /\ ~is_running)
       => /\ caller'.pc = "idle"
          /\ response' \in NotActiveResponses
          /\ UNCHANGED <<is_running, stats, recent_predictions>>]_vars

\* C12: once stop() has run on an instance that was started (it has threads
\* and is_running is false), no start() sets is_running on that same instance
\* again with its packet counter and its verdict history as they were.
C12_SingleCycle ==
    [][~(/\ ~is_running
         /\ threads # <<>>
         /\ stats.packets_processed > 0
         /\ is_running'
         /\ monitor' = monitor
         /\ stats' = stats
         /\ recent_predictions' = recent_predictions)]_vars

StoppedResponses == {"stopped", "success: stopped"}

StopPending == caller.pc \in {"stop_join_capture", "stop_join_analysis"}

StopReturned ==
    /\ caller.pc = "idle"
    /\ caller.op \in StopCalls
    /\ response \in StoppedResponses

\* C13: stop() called by the control context clears is_running, goes on to the
\* join of the capture thread and from there to the join of the analysis
\* thread, and returns with is_running false; it returns whatever the two
\* threads do, even if neither ever takes a step.
C13_StopTerminates ==
    /\ StopPending ~> StopReturned
    /\ [][(calls' = calls + 1 /\ caller'.op \in StopCalls /\ is_running)
          => ~is_running' /\ caller'.pc = "stop_join_capture"]_vars
    /\ [][(caller.pc = "stop_join_capture" /\ caller' # caller)
          => caller'.pc = "stop_join_analysis"]_vars
    /\ [][(caller.pc = "stop_join_analysis" /\ caller' # caller)
          => ~is_running' /\ StopReturned']_vars

\* C13's case: stop() has returned while the capture thread still waits for a
\* packet and the analysis thread has not left its loop
C13_Witness ==
    /\ StopReturned
    /\ ~is_running
    /\ \E t \in ThreadIds : At(t, "capture", "sniff")
    /\ \E t \in ThreadIds : threads[t].kind = "analysis" /\ ~Ended(t)

AnalysisLive ==
    \E t \in ThreadIds : threads[t].kind = "analysis" /\ ~Ended(t)

\* C14: with is_running false, the analysis thread that comes to the head of
\* its loop leaves the loop and ends without entering another window analysis,
\* and the capture thread that comes to its stop check after a packet ends;
\* an analysis thread alive when the flag is cleared has ended or the flag
\* has been set again some time later.
C14_StopObserved ==
    /\ [][\A t \in ThreadIds :
             (/\ ~is_running
              /\ t \in DOMAIN threads'
              /\ threads'[t] # threads[t])
             => /\ At(t, "analysis", "loop") => threads'[t].pc = "done"
                /\ At(t, "capture", "stop_filter") => threads'[t].pc = "done"]_vars
    /\ (~is_running /\ AnalysisLive) ~> (is_running \/ ~AnalysisLive)

\* C14's case: the flag is clear and both threads have returned, the capture
\* thread from the stop check after a packet
C14_Witness ==
    /\ ~is_running
    /\ delivered > 0
    /\ \E t \in ThreadIds : At(t, "capture", "done")
    /\ \E t \in ThreadIds : At(t, "analysis", "done")

\* C15: the stop() a capture thread of a started monitor makes from its except
\* clause runs to its end: the thread is never ended by an exception raised
\* inside that stop().
C15_CaptureStopCompletes ==
    \A t \in ThreadIds :
        (threads[t].kind = "capture" /\ analysis_thread \in ThreadIds)
            => threads[t].pc # "dead"

\* C16: with the detector as startup leaves it when there is no model store,
\* every call of predict made by a window analysis returns, and returns the
\* overall verdict false.
C16_NoStoreNeverFails ==
    detector = UnfittedDetector =>
        \A i \in 1..Len(predict_log) :
            LET r == predict(detector, window_features(predict_log[i]))
            IN ~r.raised /\ ~r.combined

\* C20: whenever is_running is true and no start() is under way, the capture
\* thread and the analysis thread of the instance both exist and neither has
\* ended.
C20_BothLive ==
    (is_running /\ caller.pc = "idle") =>
        /\ capture_thread \in ThreadIds
        /\ ~Ended(capture_thread)
        /\ analysis_thread \in ThreadIds
        /\ ~Ended(analysis_thread)

\* C17: a detector loaded from what a trained detector saved gives, on every
\* input vector, the overall and per-algorithm verdicts the trained detector
\* gives.
C17_RoundTrip ==
    loaded.present =>
        LET before == predict(detector, X)
            after == predict(loaded.d, X)
        IN /\ ~after.raised
           /\ after.combined = before.combined
           /\ after.predictions = before.predictions

\* C18: the statistics of a window of exactly one packet have std_packet_size
\* 0, and no value of the feature vector built from them is NaN.
C18_SinglePacketStd ==
    (window_stats.computed /\ window_stats.packet_count = 1) =>
        /\ ~window_stats.std_packet_size.nan
        /\ window_stats.std_packet_size.num = 0
        /\ \A i \in 1..Len(feature_vector(window_stats)) :
               ~feature_vector(window_stats)[i].nan

\* The band of t true verdicts among n under the thresholds of config c
BandWith(c, t, n) ==
    IF 10 * t > c.critical * n THEN "CRITICAL"
    ELSE IF 10 * t > c.high * n THEN "HIGH"
    ELSE IF 10 * t > c.medium * n THEN "MEDIUM"
    ELSE "LOW"

\* C19: once update_alert_config has set thresholds on the monitor, every
\* update of the threat level on a history of 10 verdicts or more yields the
\* band of the alert ratio under those thresholds.
C19_ThresholdsApplied ==
    [][(/\ alert_config.set
        /\ verdict_log' # verdict_log
        /\ Len(recent_predictions') >= MinHistory)
       => stats'.current_threat_level =
              BandWith(alert_config, CountTrue(recent_predictions'),
                       Len(recent_predictions'))]_vars

\* C26: from the return of stop() until the instance is started again or
\* replaced, packets_processed, alerts_triggered, the threat level,
\* current_window and recent_predictions do not change.
C26_QuiescentAfterStop ==
    [][(/\ StopReturned
        /\ ~is_running
        /\ ~is_running'
        /\ monitor' = monitor)
       => UNCHANGED <<stats, current_window, recent_predictions>>]_vars

\* No thread stands between the append of a record and its count, nor inside
\* _analyze_window
Settled ==
    \A t \in ThreadIds : threads[t].pc \notin AnalyzePcs \cup {"count"}

\* The records of all the batches handed to predict so far
ReducedRecords ==
    LET RECURSIVE Sum(_)
        Sum(i) == IF i = 0 THEN 0 ELSE Len(predict_log[i]) + Sum(i - 1)
    IN Sum(Len(predict_log))

\* C24: on the first instance, with a detector whose predict returns, whenever
\* no thread is in the middle of a packet or a window, packets_processed is the
\* number of records in the reduced windows plus those in current_window.
C24_PacketConservation ==
    (monitor = 1 /\ detector = StatisticalDetector /\ Settled) =>
        stats.packets_processed = ReducedRecords + Len(current_window)

\* The window duration has elapsed on a running monitor with records waiting
WindowDue == is_running /\ window_complete /\ current_window # <<>>

\* C21: on a running monitor whose detector is fitted, a window that is due is
\* not due for ever: the batch is reduced and the window reset some time
\* later, or the monitor stopped, whether or not another packet arrives.
C21_DueWindowAnalysed ==
    (WindowDue /\ detector = StatisticalDetector) ~> ~WindowDue

\* C27: on the first instance, whenever no thread is inside _analyze_window,
\* alerts_triggered is the number of true verdicts appended to the history so
\* far and last_alert_time is None exactly when alerts_triggered is 0;
\* alerts_triggered never decreases on an instance.
C27_AlertsMatchVerdicts ==
    /\ [](monitor = 1 /\ Analyzing = {} =>
            /\ stats.alerts_triggered = CountTrue(verdict_log)
            /\ (stats.last_alert_time = NoTime) = (stats.alerts_triggered = 0))
    /\ [][monitor' = monitor =>
             stats'.alerts_triggered >= stats.alerts_triggered]_vars

\* The threads of one kind that have not ended
LiveThreads(kind) ==
    {t \in ThreadIds : threads[t].kind = kind /\ ~Ended(t)}

\* C25: whenever no start() or stop() is under way on the instance, at most
\* one capture thread and at most one analysis thread of it are alive.
C25_OneUnitEach ==
    caller.pc = "idle" =>
        /\ Cardinality(LiveThreads("capture")) <= 1
        /\ Cardinality(LiveThreads("analysis")) <= 1

\* C23: every train() call passes the configured percentile to np.percentile:
\* a second train() on the same detector, or a train() after load_models(),
\* uses the same q as the first.
C23_ConfiguredPercentile ==
    \A i \in 1..Len(percentile_log) :
        percentile_log[i] = detector_config.threshold

\* C22: on one instance current_threat_level changes only in the step in
\* which a thread runs _update_threat_level after a verdict was recorded;
\* starting, stopping, packets and skipped windows leave it as it is, and a
\* status query leaves the monitor's fields and threads as they are.
C22_LevelFrame ==
    [][/\ (monitor' = monitor
           /\ stats'.current_threat_level # stats.current_threat_level)
          => /\ \E t \in ThreadIds : /\ threads[t].pc = "aw_update"
                                     /\ threads'[t].pc = "aw_reset"
             /\ verdict_log # <<>>
             /\ Len(recent_predictions) >= MinHistory
       /\ (calls' = calls + 1 /\ caller'.op = "get_monitoring_status")
          => UNCHANGED <<monitor, monitor_vars, threads>>]_vars

C22_Witness ==
    /\ monitor = 1
    /\ stats.current_threat_level = "CRITICAL"
    /\ get_stats.current_threat_level = "CRITICAL"
    /\ caller = Called("get_monitoring_status", "idle")
    /\ response = "active"

====
